---- MODULE Spec2Model ----
(***************************************************************************)
(* Model of check_nfs_verbose.py: a nagios check that fetches              *)
(* /proc/self/mountstats from a remote host, parses the NFS blocks, diffs  *)
(* the major_timeouts counters against the text kept from the previous     *)
(* run and exits 0 (OK), 1 (WARNING) or 2 (CRITICAL).                      *)
(*                                                                         *)
(* A text is a sequence of lines.  A line is a record that carries what    *)
(* the two regular expressions of parse_mountstats extract from it: tok is *)
(* the rule that matches ("device", "stat") or "other" when neither does.  *)
(* Device paths and mount points are sequences of characters, so that the  *)
(* concatenation device + mountpoint hashed by Mountstats.__init__ is the  *)
(* concatenation of the model.                                             *)
(***************************************************************************)
EXTENDS Integers, Sequences, FiniteSets, TLC

VARIABLES
    pc,           \* position of main(): fetch, load, parse, compare, report, exit, abort
    history,      \* the file history_path(hostname): [exists, data]
    r_new_stats,  \* main's local r_new_stats (raw text)
    r_old_stats,  \* main's local r_old_stats (raw text)
    old_stats,    \* main's local old_stats: dict id -> Mountstats
    new_stats,    \* main's local new_stats: dict id -> Mountstats
    todo,         \* keys of new_stats.items() the for loop has not visited yet
    exit_code,    \* main's local exit_code
    stdout,       \* the lines printed by the run so far
    status,       \* exit status of the process, -1 while it runs
    exc,          \* the exception that aborted the run, "" if none
    p_text,       \* parse_mountstats: the argument stats, as lines
    p_lines,      \* parse_mountstats: the lines of stats.splitlines() not yet read
    p_st,         \* parse_mountstats: the generator's state
    p_pc,         \* parse_mountstats: "run", "done" (generator exhausted), "raised"
    d_old,        \* diff_stats: argument old_ms
    d_new,        \* diff_stats: argument new_ms
    d_res,        \* diff_stats: what list(diff_stats(old_ms, new_ms)) gives
    d_pc,         \* diff_stats: "call", "done"
    race_before,  \* two runs at once: the history file before both runs
    race_history, \* two runs at once: the history file they share
    race_run      \* two runs at once: each run's position and locals

vars == <<pc, history, r_new_stats, r_old_stats, old_stats, new_stats, todo,
          exit_code, stdout, status, exc, p_text, p_lines, p_st, p_pc,
          d_old, d_new, d_res, d_pc, race_before, race_history, race_run>>

mainVars == <<pc, history, r_new_stats, r_old_stats, old_stats, new_stats, todo,
              exit_code, stdout, status, exc>>
parseVars == <<p_text, p_lines, p_st, p_pc>>
diffVars == <<d_old, d_new, d_res, d_pc>>
raceVars == <<race_before, race_history, race_run>>

----------------------------------------------------------------------------
(* Bounds *)

\* longest text parse_mountstats is tried on alone, in lines
MaxLines == 3
\* largest value of a major_timeouts counter in a text
MaxCount == 2
\* how many of the 22 operation types of Mountstats.__slots__ the model keeps
NumOps == 2
\* most device blocks in a text the remote host returns
MaxMounts == 2

----------------------------------------------------------------------------
(* Stats containers *)

\* the upper-case names of Mountstats.__slots__, in the order of the source
OperationNames ==
    <<"NULL", "GETATTR", "SETATTR", "LOOKUP", "ACCESS", "READLINK",
      "READ", "WRITE", "CREATE", "MKDIR", "SYMLINK", "MKNOD", "REMOVE",
      "RMDIR", "RENAME", "LINK", "READDIR", "READDIRPLUS", "FSSTAT",
      "FSINFO", "PATHCONF", "COMMIT">>

\* Mountstats.__slots__, cut to the first NumOps operation types
Slots == <<"id", "device", "mountpoint">> \o SubSeq(OperationNames, 1, NumOps)

SlotSet == {Slots[i] : i \in 1..Len(Slots)}

\* str.isupper() on the names that occur: the three lower-case slots are not
isupper(x) == x \notin {"id", "device", "mountpoint"}

\* [x for x in new_ms.__slots__ if x.isupper()]
UpperSlots == SelectSeq(Slots, isupper)

\* an upper-case name [A-Z]+ that is no slot of Mountstats (an NFSv4 operation)
ForeignOp == "OPEN"

\* OpStat.__init__: the eight integers of a stat line, by position
OpStat(args) ==
    [operations |-> args[1], transmissions |-> args[2],
     major_timeouts |-> args[3], bytes_sent |-> args[4],
     bytes_received |-> args[5], cumulative_queue_time |-> args[6],
     cumulative_response_time |-> args[7],
     cumulative_total_request_time |-> args[8]]

\* hashlib.sha1(...).hexdigest(): a digest of the string, taken as injective
sha1(s) == <<"sha1">> \o s

\* the operation attributes of a fresh Mountstats: no slot is set
NoAttrs == [a \in {} |-> OpStat(<<0, 0, 0, 0, 0, 0, 0, 0>>)]

\* Mountstats.__init__
Mountstats(device, mountpoint) ==
    [id |-> sha1(device \o mountpoint), device |-> device,
     mountpoint |-> mountpoint, attrs |-> NoAttrs]

\* hasattr(ms, attr): the slot has been assigned
hasattr(ms, attr) == attr \in DOMAIN ms.attrs

\* setattr(ms, attr, value) for a name that is a slot
setattr(ms, attr, value) ==
    [ms EXCEPT !.attrs = [a \in (DOMAIN ms.attrs) \cup {attr} |->
                            IF a = attr THEN value ELSE ms.attrs[a]]]

----------------------------------------------------------------------------
(* Texts *)

DeviceLine(d, m, t) ==
    [tok |-> "device", device |-> d, mount |-> m, type |-> t,
     optype |-> "", args |-> <<>>]

StatLine(op, args) ==
    [tok |-> "stat", device |-> <<>>, mount |-> <<>>, type |-> "",
     optype |-> op, args |-> args]

OtherLine ==
    [tok |-> "other", device |-> <<>>, mount |-> <<>>, type |-> "",
     optype |-> "", args |-> <<>>]

\* the eight counters of a stat line whose major_timeouts is n
Counters(n) == <<MaxCount + 1, MaxCount + 1, n, 0, 0, 0, 0, 0>>

Devices == {<<"a">>, <<"a", "b">>}
Mounts == {<<"c">>, <<"b", "c">>}
FsTypes == {"nfs", "ext4"}

OpsOfModel == {UpperSlots[i] : i \in 1..Len(UpperSlots)}

\* every line the parser is tried on
Lines ==
    {DeviceLine(d, m, t) : d \in Devices, m \in Mounts, t \in FsTypes}
    \cup {StatLine(op, Counters(n)) : op \in OpsOfModel \cup {ForeignOp}, n \in 0..MaxCount}
    \cup {OtherLine}

SeqsUpTo(S, n) == UNION {[1..k -> S] : k \in 0..n}

Texts == SeqsUpTo(Lines, MaxLines)

----------------------------------------------------------------------------
(* parse_mountstats *)

(* The generator's state.  objs are the Mountstats objects created so far;  *)
(* current_device is an index into objs, 0 for None; yielded is the list of *)
(* objects yielded so far (a yielded object is the object itself, so a      *)
(* setattr after the yield is seen by whoever holds the pair); raised tells *)
(* that the generator stopped on an exception.                              *)
ParserStart ==
    [current_device |-> 0, objs |-> <<>>, yielded |-> <<>>, raised |-> FALSE]

\* lines 193-194 and 212-213: yield (current_device.id, current_device)
yield_current(st) ==
    IF st.current_device # 0
    THEN [st EXCEPT !.yielded = Append(@, st.current_device)]
    ELSE st

\* lines 191-203: a line the 'device' rule matches
on_device(st, line) ==
    LET y == yield_current(st)
    IN  IF line.type # "nfs"
        THEN y   \* 'continue' goes on to the next rule; current_device is kept
        ELSE [y EXCEPT !.objs = Append(@, Mountstats(line.device, line.mount)),
                       !.current_device = Len(st.objs) + 1]

\* on_stat as it would be were Mountstats to take any attribute name
on_stat_AnyName(st, line) ==
    IF st.current_device = 0
    THEN [st EXCEPT !.raised = TRUE]
    ELSE [st EXCEPT !.objs[st.current_device] =
                        setattr(@, line.optype, OpStat(line.args))]

\* lines 205-209: a line the 'stat' rule matches.  setattr raises
\* AttributeError on None and on a name that is no slot of Mountstats.
on_stat(st, line) ==
    IF st.current_device = 0 \/ line.optype \notin SlotSet
    THEN [st EXCEPT !.raised = TRUE]
    ELSE [st EXCEPT !.objs[st.current_device] =
                        setattr(@, line.optype, OpStat(line.args))]

\* lines 187-209: the body of the loop over stats.splitlines() for one line
parse_line(st, line) ==
    CASE line.tok = "device" -> on_device(st, line)
      [] line.tok = "stat" -> on_stat(st, line)
      [] OTHER -> st

RECURSIVE parse_from(_, _)
parse_from(st, lines) ==
    IF st.raised THEN st
    ELSE IF lines = <<>> THEN yield_current(st)
    ELSE parse_from(parse_line(st, Head(lines)), Tail(lines))

\* the generator run to its end: every pair it yields, or the exception
parse_mountstats(stats) == parse_from(ParserStart, stats)

\* the (id, object) pairs a generator state has yielded, objects as they are now
Pairs(st) == [i \in 1..Len(st.yielded) |-> st.objs[st.yielded[i]]]

\* dict(pairs): a later pair with the same key replaces an earlier one
dict(pairs) ==
    [k \in {pairs[i].id : i \in 1..Len(pairs)} |->
        LET last == CHOOSE i \in 1..Len(pairs) :
                        /\ pairs[i].id = k
                        /\ \A j \in (i + 1)..Len(pairs) : pairs[j].id # k
        IN  pairs[last]]

NoDict == dict(<<>>)

----------------------------------------------------------------------------
(* diff_stats *)

\* "%s [%d]" % (attr, n)
Alert(attr, n) == [op |-> attr, count |-> n]

major_timeouts_increased_OrEqual(old_ms, new_ms, attr) ==
    new_ms.attrs[attr].major_timeouts >= old_ms.attrs[attr].major_timeouts

\* line 225: getattr(new_ms, attr).major_timeouts > getattr(old_ms, attr).major_timeouts
major_timeouts_increased(old_ms, new_ms, attr) ==
    new_ms.attrs[attr].major_timeouts > old_ms.attrs[attr].major_timeouts

\* line 226: the alert yielded for attr
alert_for(old_ms, new_ms, attr) ==
    Alert(attr, new_ms.attrs[attr].major_timeouts - old_ms.attrs[attr].major_timeouts)

\* lines 224-226 from the i-th upper-case slot on; acc are the alerts so far
RECURSIVE diff_from(_, _, _, _)
diff_from(old_ms, new_ms, i, acc) ==
    IF i > Len(UpperSlots) THEN [raised |-> FALSE, errs |-> acc]
    ELSE LET attr == UpperSlots[i]
         IN  IF ~hasattr(new_ms, attr) \/ ~hasattr(old_ms, attr)
             THEN [raised |-> TRUE, errs |-> <<>>]   \* getattr: AttributeError
             ELSE IF major_timeouts_increased(old_ms, new_ms, attr)
             THEN diff_from(old_ms, new_ms, i + 1,
                            Append(acc, alert_for(old_ms, new_ms, attr)))
             ELSE diff_from(old_ms, new_ms, i + 1, acc)

\* list(diff_stats(old_ms, new_ms)): the alerts, or the exception
diff_stats(old_ms, new_ms) == diff_from(old_ms, new_ms, 1, <<>>)

----------------------------------------------------------------------------
(* main: one run of the check, and the next run the scheduler starts *)

\* the history file of the target: absent
NoFile == [exists |-> FALSE, data |-> <<>>]

persist_mountstats_WritesNothing(stats) == [exists |-> TRUE, data |-> <<>>]

\* persist_mountstats: open(history_path(hostname), 'w+'), write, close
persist_mountstats(stats) == [exists |-> TRUE, data |-> stats]

(* The texts the remote host returns in the runs of the check are made of   *)
(* blocks, as the kernel writes them: a device header followed by the stat  *)
(* lines of the operation types in the order of the enumeration, all of     *)
(* them or, in a block that is cut short, the first ones.  No two blocks of *)
(* a text have the same header.                                             *)
FetchHeaders ==
    {DeviceLine(<<"a">>, <<"c">>, "nfs"), DeviceLine(<<"a", "b">>, <<"c">>, "nfs"),
     DeviceLine(<<"a">>, <<"c">>, "ext4")}

\* the major_timeouts of the operation types a block has a stat line for
FetchCounters ==
    UNION {[{UpperSlots[i] : i \in 1..k} -> {0, MaxCount}] : k \in 0..Len(UpperSlots)}

\* the stat lines of a block, f being the counters of the types it lists
StatRun(f) ==
    LET listed == SelectSeq(UpperSlots, LAMBDA a : a \in DOMAIN f)
    IN  [i \in 1..Len(listed) |-> StatLine(listed[i], Counters(f[listed[i]]))]

FetchBlocks == {<<h>> \o StatRun(f) : h \in FetchHeaders, f \in FetchCounters}

RECURSIVE Flatten(_)
Flatten(blocks) ==
    IF blocks = <<>> THEN <<>> ELSE Head(blocks) \o Flatten(Tail(blocks))

FetchTexts ==
    {Flatten(bs) : bs \in {b \in SeqsUpTo(FetchBlocks, MaxMounts) :
                              \A i, j \in 1..Len(b) : i # j => b[i][1] # b[j][1]}}

\* print: one more line on standard output
print(line) == stdout' = Append(stdout, line)

\* an uncaught exception: traceback on stderr, exit status 1
Abort(e) ==
    /\ pc' = "abort"
    /\ exc' = e
    /\ status' = 1

\* sys.exit(code)
Exit(code) ==
    /\ pc' = "exit"
    /\ status' = code
    /\ exc' = exc

FetchFail_PersistsFirst ==
    /\ pc = "fetch"
    /\ \E t \in FetchTexts : history' = [exists |-> TRUE, data |-> t]
    /\ print(<<"WARNING", "-", "Failed to fetch remote mountstats">>)
    /\ Exit(1)
    /\ UNCHANGED <<r_new_stats, r_old_stats, old_stats, new_stats, todo, exit_code>>

\* lines 236-240: fetch_mountstats raises SystemError
FetchFail ==
    /\ pc = "fetch"
    /\ print(<<"WARNING", "-", "Failed to fetch remote mountstats">>)
    /\ Exit(1)
    /\ UNCHANGED <<history, r_new_stats, r_old_stats, old_stats, new_stats,
                   todo, exit_code>>

\* line 237: fetch_mountstats returns the remote text
FetchOk ==
    /\ pc = "fetch"
    /\ \E t \in FetchTexts : r_new_stats' = t
    /\ pc' = "load"
    /\ UNCHANGED <<history, r_old_stats, old_stats, new_stats, todo,
                   exit_code, stdout, status, exc>>

\* lines 242-247: load_mountstats raises IOError, the file does not exist
FirstRun ==
    /\ pc = "load"
    /\ ~history.exists
    /\ history' = persist_mountstats(r_new_stats)
    /\ print(<<"Historical stats file created">>)
    /\ Exit(0)
    /\ UNCHANGED <<r_new_stats, r_old_stats, old_stats, new_stats, todo, exit_code>>

\* line 243: load_mountstats returns the text of the last run
LoadHistory ==
    /\ pc = "load"
    /\ history.exists
    /\ r_old_stats' = history.data
    /\ pc' = "parse"
    /\ UNCHANGED <<history, r_new_stats, old_stats, new_stats, todo,
                   exit_code, stdout, status, exc>>

(* load_mountstats fails on a history file that exists (open or read gives  *)
(* an IOError other than "no such file").  main's except IOError takes in   *)
(* every IOError, so the first-run branch runs; its persist_mountstats      *)
(* either writes the file or fails on it in turn.                           *)

\* lines 242-247: the read error is taken for a missing file, persist works
ReadErrorRecreates ==
    /\ pc = "load"
    /\ history.exists
    /\ history' = persist_mountstats(r_new_stats)
    /\ print(<<"Historical stats file created">>)
    /\ Exit(0)
    /\ UNCHANGED <<r_new_stats, r_old_stats, old_stats, new_stats, todo, exit_code>>

\* lines 242-245: the open(..., 'w+') of persist_mountstats raises IOError too
ReadErrorAborts ==
    /\ pc = "load"
    /\ history.exists
    /\ Abort("IOError")
    /\ UNCHANGED <<history, r_new_stats, r_old_stats, old_stats, new_stats,
                   todo, exit_code, stdout>>

\* lines 249-250: one of the two dict(parse_mountstats(...)) raises
ParseRaises ==
    /\ pc = "parse"
    /\ \/ parse_mountstats(r_old_stats).raised
       \/ parse_mountstats(r_new_stats).raised
    /\ Abort("AttributeError")
    /\ UNCHANGED <<history, r_new_stats, r_old_stats, old_stats, new_stats,
                   todo, exit_code, stdout>>

\* lines 249-256: both texts parsed, history overwritten, the loop entered
ParseAndPersist ==
    /\ pc = "parse"
    /\ ~parse_mountstats(r_old_stats).raised
    /\ ~parse_mountstats(r_new_stats).raised
    /\ old_stats' = dict(Pairs(parse_mountstats(r_old_stats)))
    /\ new_stats' = dict(Pairs(parse_mountstats(r_new_stats)))
    /\ history' = persist_mountstats(r_new_stats)
    /\ exit_code' = 0
    /\ todo' = DOMAIN new_stats'
    /\ pc' = "compare"
    /\ UNCHANGED <<r_new_stats, r_old_stats, stdout, status, exc>>

CompareKeyError_EitherSide ==
    /\ pc = "compare"
    /\ \/ \E uid \in todo : uid \notin DOMAIN old_stats
       \/ \E uid \in DOMAIN old_stats : uid \notin DOMAIN new_stats
    /\ Abort("KeyError")
    /\ UNCHANGED <<history, r_new_stats, r_old_stats, old_stats, new_stats,
                   todo, exit_code, stdout>>

\* line 257: old_stats[uid] raises KeyError
CompareKeyError ==
    /\ pc = "compare"
    /\ \E uid \in todo : uid \notin DOMAIN old_stats
    /\ Abort("KeyError")
    /\ UNCHANGED <<history, r_new_stats, r_old_stats, old_stats, new_stats,
                   todo, exit_code, stdout>>

\* line 257: list(diff_stats(...)) raises AttributeError
CompareAttributeError ==
    /\ pc = "compare"
    /\ \E uid \in todo :
          /\ uid \in DOMAIN old_stats
          /\ diff_stats(old_stats[uid], new_stats[uid]).raised
    /\ Abort("AttributeError")
    /\ UNCHANGED <<history, r_new_stats, r_old_stats, old_stats, new_stats,
                   todo, exit_code, stdout>>

\* lines 256-260: one turn of the loop over new_stats.items()
CompareMount ==
    /\ pc = "compare"
    /\ \E uid \in todo :
          /\ uid \in DOMAIN old_stats
          /\ LET r == diff_stats(old_stats[uid], new_stats[uid])
             IN  /\ ~r.raised
                 /\ IF r.errs # <<>>
                    THEN /\ print(<<"CRITICAL", "-", "NFS Operation Errors for",
                                    new_stats[uid].device, r.errs>>)
                         /\ exit_code' = 2
                    ELSE UNCHANGED <<stdout, exit_code>>
          /\ todo' = todo \ {uid}
    /\ UNCHANGED <<pc, history, r_new_stats, r_old_stats, old_stats, new_stats,
                   status, exc>>

\* lines 262-265: the loop is over
Report ==
    /\ pc = "compare"
    /\ todo = {}
    /\ IF exit_code = 0
       THEN print(<<"OK", "-", "No NFS errors found">>)
       ELSE UNCHANGED stdout
    /\ Exit(exit_code)
    /\ UNCHANGED <<history, r_new_stats, r_old_stats, old_stats, new_stats,
                   todo, exit_code>>

\* the scheduler starts the check again: a new process, the same history file
NextRun ==
    /\ pc \in {"exit", "abort"}
    /\ pc' = "fetch"
    /\ r_new_stats' = <<>>
    /\ r_old_stats' = <<>>
    /\ old_stats' = NoDict
    /\ new_stats' = NoDict
    /\ todo' = {}
    /\ exit_code' = 0
    /\ stdout' = <<>>
    /\ status' = -1
    /\ exc' = ""
    /\ UNCHANGED history

MainIdle ==
    /\ pc = "idle" /\ history = NoFile /\ r_new_stats = <<>> /\ r_old_stats = <<>>
    /\ old_stats = NoDict /\ new_stats = NoDict /\ todo = {} /\ exit_code = 0
    /\ stdout = <<>> /\ status = -1 /\ exc = ""

ParseIdle == p_text = <<>> /\ p_lines = <<>> /\ p_st = ParserStart /\ p_pc = "idle"

DiffIdle ==
    /\ d_old = Mountstats(<<>>, <<>>) /\ d_new = Mountstats(<<>>, <<>>)
    /\ d_res = [raised |-> FALSE, errs |-> <<>>] /\ d_pc = "idle"

RaceIdle == race_before = NoFile /\ race_history = NoFile /\ race_run = <<>>

\* the first run against a target: no history file yet
Init ==
    /\ pc = "fetch"
    /\ history = NoFile
    /\ r_new_stats = <<>>
    /\ r_old_stats = <<>>
    /\ old_stats = NoDict
    /\ new_stats = NoDict
    /\ todo = {}
    /\ exit_code = 0
    /\ stdout = <<>>
    /\ status = -1
    /\ exc = ""
    /\ ParseIdle
    /\ DiffIdle
    /\ RaceIdle

Next ==
    \/ (FetchFail /\ UNCHANGED <<parseVars, diffVars, raceVars>>)
    \/ (FetchOk /\ UNCHANGED <<parseVars, diffVars, raceVars>>)
    \/ (FirstRun /\ UNCHANGED <<parseVars, diffVars, raceVars>>)
    \/ (LoadHistory /\ UNCHANGED <<parseVars, diffVars, raceVars>>)
    \/ (ReadErrorRecreates /\ UNCHANGED <<parseVars, diffVars, raceVars>>)
    \/ (ReadErrorAborts /\ UNCHANGED <<parseVars, diffVars, raceVars>>)
    \/ (ParseRaises /\ UNCHANGED <<parseVars, diffVars, raceVars>>)
    \/ (ParseAndPersist /\ UNCHANGED <<parseVars, diffVars, raceVars>>)
    \/ (CompareKeyError /\ UNCHANGED <<parseVars, diffVars, raceVars>>)
    \/ (CompareAttributeError /\ UNCHANGED <<parseVars, diffVars, raceVars>>)
    \/ (CompareMount /\ UNCHANGED <<parseVars, diffVars, raceVars>>)
    \/ (Report /\ UNCHANGED <<parseVars, diffVars, raceVars>>)
    \/ (NextRun /\ UNCHANGED <<parseVars, diffVars, raceVars>>)

Spec == Init /\ [][Next]_vars

----------------------------------------------------------------------------
(* parse_mountstats, line by line, on every text *)

InitParse ==
    /\ MainIdle
    /\ DiffIdle
    /\ RaceIdle
    /\ p_text \in Texts
    /\ p_lines = p_text
    /\ p_st = ParserStart
    /\ p_pc = "run"

\* one turn of the loop of line 187 on a line of the given kind
ParseTurn(tok) ==
    /\ p_pc = "run"
    /\ p_lines # <<>>
    /\ Head(p_lines).tok = tok
    /\ p_st' = parse_line(p_st, Head(p_lines))
    /\ p_lines' = Tail(p_lines)
    /\ p_pc' = IF p_st'.raised THEN "raised" ELSE "run"
    /\ UNCHANGED p_text

ParseDevice == ParseTurn("device")

ParseStat == ParseTurn("stat")

ParseOther == ParseTurn("other")

\* lines 211-213: the loop is over
ParseEnd ==
    /\ p_pc = "run"
    /\ p_lines = <<>>
    /\ p_st' = yield_current(p_st)
    /\ p_pc' = "done"
    /\ UNCHANGED <<p_text, p_lines>>

NextParse ==
    \/ (ParseDevice /\ UNCHANGED <<mainVars, diffVars, raceVars>>)
    \/ (ParseStat /\ UNCHANGED <<mainVars, diffVars, raceVars>>)
    \/ (ParseOther /\ UNCHANGED <<mainVars, diffVars, raceVars>>)
    \/ (ParseEnd /\ UNCHANGED <<mainVars, diffVars, raceVars>>)

SpecParse == InitParse /\ [][NextParse]_vars

----------------------------------------------------------------------------
(* diff_stats on every pair of records that share an identity *)

\* the operation attributes a record can hold: any subset of the slots set
AttrMaps ==
    UNION {[S -> {OpStat(Counters(n)) : n \in 0..MaxCount}] : S \in SUBSET OpsOfModel}

MountRecords ==
    {[Mountstats(d, m) EXCEPT !.attrs = f] : d \in Devices, m \in Mounts, f \in AttrMaps}

InitDiff ==
    /\ MainIdle
    /\ ParseIdle
    /\ RaceIdle
    /\ d_old \in MountRecords
    /\ d_new \in MountRecords
    /\ d_old.id = d_new.id
    /\ d_res = [raised |-> FALSE, errs |-> <<>>]
    /\ d_pc = "call"

\* errs = list(diff_stats(old_stats[uid], mount))
DiffCall ==
    /\ d_pc = "call"
    /\ d_res' = diff_stats(d_old, d_new)
    /\ d_pc' = "done"
    /\ UNCHANGED <<d_old, d_new>>

NextDiff == DiffCall /\ UNCHANGED <<mainVars, parseVars, raceVars>>

SpecDiff == InitDiff /\ [][NextDiff]_vars

----------------------------------------------------------------------------
(* Two runs of main at once against one target.  Nothing in the source     *)
(* takes a lock on the history file; each run has its own file objects and  *)
(* the file is what they share.  The steps of a run are the calls that      *)
(* reach the file: load_mountstats (open 'r+' and read), then in            *)
(* persist_mountstats the open 'w+' (which truncates), write and close.     *)
(* The texts are shorter than the buffer of a Python 2 file object, so      *)
(* write() fills the buffer and close() writes it, at offset 0 of the       *)
(* run's own handle.                                                        *)

Runs == {1, 2}

\* blocks for the two runs: any header, the first k operation types listed
RaceCounters ==
    {[a \in {UpperSlots[i] : i \in 1..k} |-> MaxCount] : k \in 0..Len(UpperSlots)}

RaceTexts == {<<h>> \o StatRun(f) : h \in FetchHeaders, f \in RaceCounters}

\* main at its first line, nothing fetched or loaded
RunStart ==
    [pc |-> "fetch", r_new_stats |-> <<>>, r_old_stats |-> <<>>,
     loaded |-> FALSE, persisted |-> FALSE, status |-> -1]

\* the file after data is written at offset 0 over its content
Overlay(data, content) == data \o SubSeq(content, Len(data) + 1, Len(content))

InitRace ==
    /\ MainIdle
    /\ ParseIdle
    /\ DiffIdle
    /\ race_before \in {NoFile} \cup {persist_mountstats(t) : t \in RaceTexts}
    /\ race_history = race_before
    /\ race_run = [p \in Runs |-> RunStart]

\* lines 236-240: fetch_mountstats raises SystemError
RaceFetchFail(p) ==
    /\ race_run[p].pc = "fetch"
    /\ race_run' = [race_run EXCEPT ![p].pc = "exit", ![p].status = 1]
    /\ UNCHANGED <<race_before, race_history>>

\* line 237: fetch_mountstats returns the remote text
RaceFetchOk(p) ==
    /\ race_run[p].pc = "fetch"
    /\ \E t \in RaceTexts :
          race_run' = [race_run EXCEPT ![p].pc = "load", ![p].r_new_stats = t]
    /\ UNCHANGED <<race_before, race_history>>

\* line 243: load_mountstats opens the file as it is now and reads it
RaceLoad(p) ==
    /\ race_run[p].pc = "load"
    /\ race_history.exists
    /\ race_run' = [race_run EXCEPT ![p].pc = "parse",
                                    ![p].r_old_stats = race_history.data,
                                    ![p].loaded = TRUE]
    /\ UNCHANGED <<race_before, race_history>>

\* lines 243-245: no file, IOError, on to persist_mountstats of line 245
RaceLoadAbsent(p) ==
    /\ race_run[p].pc = "load"
    /\ ~race_history.exists
    /\ race_run' = [race_run EXCEPT ![p].pc = "open"]
    /\ UNCHANGED <<race_before, race_history>>

\* lines 249-250: one of the two dict(parse_mountstats(...)) raises
RaceParseRaises(p) ==
    /\ race_run[p].pc = "parse"
    /\ \/ parse_mountstats(race_run[p].r_old_stats).raised
       \/ parse_mountstats(race_run[p].r_new_stats).raised
    /\ race_run' = [race_run EXCEPT ![p].pc = "abort", ![p].status = 1]
    /\ UNCHANGED <<race_before, race_history>>

\* lines 249-252: both texts parsed, on to persist_mountstats of line 252
RaceParseOk(p) ==
    /\ race_run[p].pc = "parse"
    /\ ~parse_mountstats(race_run[p].r_old_stats).raised
    /\ ~parse_mountstats(race_run[p].r_new_stats).raised
    /\ race_run' = [race_run EXCEPT ![p].pc = "open"]
    /\ UNCHANGED <<race_before, race_history>>

RaceOpen_Locked(p) ==
    /\ race_run[p].pc = "open"
    /\ \A q \in Runs \ {p} : race_run[q].pc \notin {"write", "close"}
    /\ race_history' = [exists |-> TRUE, data |-> <<>>]
    /\ race_run' = [race_run EXCEPT ![p].pc = "write"]
    /\ UNCHANGED race_before

\* line 158: open(..., 'w+') creates the file or truncates it
RaceOpen(p) ==
    /\ race_run[p].pc = "open"
    /\ race_history' = [exists |-> TRUE, data |-> <<>>]
    /\ race_run' = [race_run EXCEPT ![p].pc = "write"]
    /\ UNCHANGED race_before

\* line 159: ouf.write(stats) fills the buffer of the file object
RaceWrite(p) ==
    /\ race_run[p].pc = "write"
    /\ race_run' = [race_run EXCEPT ![p].pc = "close"]
    /\ UNCHANGED <<race_before, race_history>>

\* line 160: ouf.close() writes the buffer; the rest of main leaves the file
RaceClose(p) ==
    /\ race_run[p].pc = "close"
    /\ race_history' = [exists |-> TRUE,
                        data |-> Overlay(race_run[p].r_new_stats, race_history.data)]
    /\ race_run' = [race_run EXCEPT ![p].pc = "exit", ![p].persisted = TRUE]
    /\ UNCHANGED race_before

NextRace ==
    \/ \E p \in Runs : RaceFetchFail(p) /\ UNCHANGED <<mainVars, parseVars, diffVars>>
    \/ \E p \in Runs : RaceFetchOk(p) /\ UNCHANGED <<mainVars, parseVars, diffVars>>
    \/ \E p \in Runs : RaceLoad(p) /\ UNCHANGED <<mainVars, parseVars, diffVars>>
    \/ \E p \in Runs : RaceLoadAbsent(p) /\ UNCHANGED <<mainVars, parseVars, diffVars>>
    \/ \E p \in Runs : RaceParseRaises(p) /\ UNCHANGED <<mainVars, parseVars, diffVars>>
    \/ \E p \in Runs : RaceParseOk(p) /\ UNCHANGED <<mainVars, parseVars, diffVars>>
    \/ \E p \in Runs : RaceOpen(p) /\ UNCHANGED <<mainVars, parseVars, diffVars>>
    \/ \E p \in Runs : RaceWrite(p) /\ UNCHANGED <<mainVars, parseVars, diffVars>>
    \/ \E p \in Runs : RaceClose(p) /\ UNCHANGED <<mainVars, parseVars, diffVars>>

SpecRace == InitRace /\ [][NextRace]_vars

----------------------------------------------------------------------------
(* Properties *)

\* the major_timeouts counter of an operation type that is set
mt(ms, attr) == ms.attrs[attr].major_timeouts

\* every operation type of the enumeration is set in the record
AllSet(ms) == \A attr \in OpsOfModel : hasattr(ms, attr)

\* the operation types named by a list of alerts
AlertOps(errs) == {errs[i].op : i \in 1..Len(errs)}

\* a step that ends a run which got past the load of the history
EndsComparedRun == pc \in {"parse", "compare"} /\ pc' \in {"exit", "abort"}

\* C1: in the compare step an identity that is in the new snapshot and not in
\* the old one does not make the run raise: the run never aborts on the
\* missing key.
C1_NewIdentityDoesNotRaise ==
    (\E uid \in DOMAIN new_stats : uid \notin DOMAIN old_stats) => exc # "KeyError"

\* the number of lines parse_mountstats has read
Consumed == Len(p_text) - Len(p_lines)

\* the last device header read declares an fstype other than "nfs"
InNonNfsBlock ==
    LET hdrs == {i \in 1..Consumed : p_text[i].tok = "device"}
    IN  /\ hdrs # {}
        /\ p_text[CHOOSE i \in hdrs : \A j \in hdrs : j <= i].type # "nfs"

\* C2: a stat line that lies in the block of a non-nfs device header is
\* skipped: it changes no record and raises nothing.
C2_NonNfsStatLinesSkipped ==
    [][(p_pc = "run" /\ p_lines # <<>> /\ Head(p_lines).tok = "stat" /\ InNonNfsBlock)
        => (p_st'.objs = p_st.objs /\ p_pc' # "raised")]_vars

\* C3: when an operation type is unset in old or in new, diff_stats does not
\* fail, yields no alert for it, and yields the alerts of the operation types
\* set in both whose counter increased.
C3_UnsetOperationSkipped ==
    (d_pc = "done" /\ ~(AllSet(d_old) /\ AllSet(d_new))) =>
        /\ ~d_res.raised
        /\ AlertOps(d_res.errs) =
              {attr \in OpsOfModel : /\ hasattr(d_old, attr)
                                     /\ hasattr(d_new, attr)
                                     /\ mt(d_new, attr) > mt(d_old, attr)}

\* C4: when every operation type is set in both records, diff_stats yields
\* one alert for exactly the operation types whose major_timeouts is larger
\* in new than in old, in the order of the enumeration, each with the count
\* new - old; it yields nothing when no counter increased.
C4_AlertIffIncrease ==
    (d_pc = "done" /\ AllSet(d_old) /\ AllSet(d_new)) =>
        /\ ~d_res.raised
        /\ AlertOps(d_res.errs) =
              {attr \in OpsOfModel : mt(d_new, attr) > mt(d_old, attr)}
        /\ Len(d_res.errs) = Cardinality(AlertOps(d_res.errs))
        /\ \A i \in 1..Len(d_res.errs) :
              d_res.errs[i].count
                  = mt(d_new, d_res.errs[i].op) - mt(d_old, d_res.errs[i].op)
        /\ \A i, j \in 1..Len(d_res.errs) :
              i < j => \E a, b \in 1..Len(UpperSlots) :
                          /\ a < b
                          /\ UpperSlots[a] = d_res.errs[i].op
                          /\ UpperSlots[b] = d_res.errs[j].op

\* diff_stats has run on two fully set records and yielded an alert whose
\* count is smaller than the new counter (old was not zero)
C4_Witness ==
    /\ d_pc = "done"
    /\ AllSet(d_old)
    /\ AllSet(d_new)
    /\ \E i \in 1..Len(d_res.errs) :
          d_res.errs[i].count < mt(d_new, d_res.errs[i].op)
    /\ \E attr \in OpsOfModel : attr \notin AlertOps(d_res.errs)

\* C5: a run whose fetch fails ends at once with exit status 1 and the one
\* line "WARNING - Failed to fetch remote mountstats"; it loads, parses and
\* persists nothing, so the history file is what it was.
C5_FetchFailureChangesNothing ==
    [][(pc = "fetch" /\ pc' # "load") =>
          /\ pc' = "exit"
          /\ status' = 1
          /\ stdout' = <<(<<"WARNING", "-", "Failed to fetch remote mountstats">>)>>
          /\ history' = history
          /\ r_old_stats' = <<>>
          /\ old_stats' = NoDict
          /\ new_stats' = NoDict]_vars

\* a run has ended on a failed fetch while a history file exists
C5_Witness ==
    /\ pc = "exit"
    /\ status = 1
    /\ stdout = <<(<<"WARNING", "-", "Failed to fetch remote mountstats">>)>>
    /\ history.exists
    /\ history.data # <<>>

\* C6: a run whose fetch succeeds and that finds no history file writes the
\* fetched text as it is to the history file, parses and compares nothing,
\* prints "Historical stats file created" and exits with status 0.
C6_FirstRunCreatesHistory ==
    [][(pc = "load" /\ ~history.exists) =>
          /\ history' = [exists |-> TRUE, data |-> r_new_stats]
          /\ pc' = "exit"
          /\ status' = 0
          /\ exc' = ""
          /\ stdout' = <<(<<"Historical stats file created">>)>>
          /\ old_stats' = NoDict
          /\ new_stats' = NoDict]_vars

\* a first run has ended on a text that parse_mountstats would raise on
C6_Witness ==
    /\ pc = "exit"
    /\ status = 0
    /\ stdout = <<(<<"Historical stats file created">>)>>
    /\ history.exists
    /\ history.data = r_new_stats
    /\ parse_mountstats(r_new_stats).raised

\* C7: a run that got past the load of the history ends with the history
\* file holding the text it fetched.
C7_HistoryAlwaysAdvances ==
    [][EndsComparedRun => history' = [exists |-> TRUE, data |-> r_new_stats]]_vars

\* some identity of both snapshots has an operation type, set in both, whose
\* major_timeouts increased
AnyAlert ==
    \E uid \in (DOMAIN new_stats) \cap (DOMAIN old_stats) :
        \E attr \in OpsOfModel :
            /\ hasattr(old_stats[uid], attr)
            /\ hasattr(new_stats[uid], attr)
            /\ mt(new_stats[uid], attr) > mt(old_stats[uid], attr)

\* C8: a run that got past the load of the history ends with exit status 2
\* when an identity of both snapshots produced an alert and otherwise with
\* exit status 0 and the line "OK - No NFS errors found"; never with 1.
C8_SeverityFromAlerts ==
    [][EndsComparedRun =>
          /\ status' \in {0, 2}
          /\ status' = 2 <=> AnyAlert'
          /\ status' = 0 => stdout' = <<(<<"OK", "-", "No NFS errors found">>)>>]_vars

\* C9: a run whose history file is absent or can be read ends in one of the
\* four terminal states (WARNING, OK created, OK, CRITICAL); it never ends on
\* an unhandled error of the parser or of the comparison.
C9_RunEndsInTerminalState == pc = "abort" => exc = "IOError"

\* the severity token of an exit status
SeverityToken(code) ==
    CASE code = 0 -> "OK" [] code = 1 -> "WARNING" [] code = 2 -> "CRITICAL"

\* C10: a run that has ended in a terminal state has printed exactly one
\* line, and the line starts with the severity token of the exit status.
C10_OneLineWithSeverityToken ==
    pc = "exit" =>
        /\ Len(stdout) = 1
        /\ stdout[1][1] = SeverityToken(status)

\* C11: a run that cannot read a history file that exists aborts: it prints
\* nothing, ends outside the exit codes of the check's own branches and
\* leaves the history file as it was.
C11_ReadFailureIsFatal ==
    [][(pc = "load" /\ history.exists /\ pc' # "parse") =>
          /\ pc' = "abort"
          /\ stdout' = stdout
          /\ history' = history]_vars

\* the identities of the old snapshot that the new snapshot does not have
OldOnly == (DOMAIN old_stats) \ (DOMAIN new_stats)

\* the CRITICAL lines on standard output
CriticalLines == {i \in 1..Len(stdout) : stdout[i][1] = "CRITICAL"}

\* C12: an identity that is in the old snapshot only takes no part in the
\* comparison: every CRITICAL line is the diff of an identity of both
\* snapshots, the exit status is 2 only for an alert of such an identity,
\* and the run fails only on an identity of the new snapshot.
C12_OldOnlyIdentityLeftOut ==
    OldOnly # {} =>
        /\ \A i \in CriticalLines :
              \E uid \in (DOMAIN new_stats) \cap (DOMAIN old_stats) :
                  /\ stdout[i][4] = new_stats[uid].device
                  /\ ~diff_stats(old_stats[uid], new_stats[uid]).raised
                  /\ stdout[i][5] = diff_stats(old_stats[uid], new_stats[uid]).errs
        /\ pc = "exit" => (status = 2 <=> AnyAlert)
        /\ (pc = "exit" /\ status = 0) =>
              stdout = <<(<<"OK", "-", "No NFS errors found">>)>>
        /\ (pc = "abort" /\ exc = "KeyError") =>
              \E uid \in DOMAIN new_stats : uid \notin DOMAIN old_stats
        /\ (pc = "abort" /\ exc = "AttributeError") =>
              \E uid \in (DOMAIN new_stats) \cap (DOMAIN old_stats) :
                  diff_stats(old_stats[uid], new_stats[uid]).raised

\* a run has ended OK although an identity of the old snapshot only had a
\* counter above zero (or had operation types unset)
C12_Witness ==
    /\ pc = "exit"
    /\ status = 0
    /\ DOMAIN new_stats # {}
    /\ \E uid \in OldOnly :
          \/ \E attr \in DOMAIN old_stats[uid].attrs : mt(old_stats[uid], attr) > 0
          \/ ~AllSet(old_stats[uid])

\* the positions of the device headers of a text
HeaderPositions(text) == {i \in 1..Len(text) : text[i].tok = "device"}

\* the positions of the nfs device headers of a text, in input order
NfsPositions(text) ==
    LET nfs == {i \in HeaderPositions(text) : text[i].type = "nfs"}
        RECURSIVE Sorted(_)
        Sorted(S) == IF S = {} THEN <<>>
                     ELSE LET m == CHOOSE x \in S : \A y \in S : x <= y
                          IN  <<m>> \o Sorted(S \ {m})
    IN  Sorted(nfs)

\* the position after the block of the header at i: the next device header,
\* or one past the end of the text
BlockEnd(text, i) ==
    LET later == {j \in HeaderPositions(text) : j > i}
    IN  IF later = {} THEN Len(text) + 1
        ELSE CHOOSE j \in later : \A k \in later : j <= k

\* the record of the block of the nfs header at i, as C13 describes it: each
\* operation type maps to the counters of its last stat line in the block
BlockRecord(text, i) ==
    LET stats == {j \in (i + 1)..(BlockEnd(text, i) - 1) : text[j].tok = "stat"}
        ops == {text[j].optype : j \in stats}
        lastOf(a) == CHOOSE j \in stats :
                        /\ text[j].optype = a
                        /\ \A k \in stats : text[k].optype = a => k <= j
    IN  [Mountstats(text[i].device, text[i].mount) EXCEPT
            !.attrs = [a \in ops |-> OpStat(text[lastOf(a)].args)]]

\* C13: parse_mountstats yields one pair per nfs device header, in input
\* order, when the block of the header is over (next device header or end of
\* input); the record of a pair holds, for each operation type, the counters
\* of the last stat line of that type inside the block, and nothing else.
C13_OnePairPerNfsHeader ==
    LET nfs == NfsPositions(p_text)
        over == SelectSeq(nfs, LAMBDA i : BlockEnd(p_text, i) <= Consumed \/ p_pc = "done")
    IN  /\ p_pc \in {"run", "done"} => Len(p_st.yielded) = Len(over)
        /\ p_pc = "done" =>
              Pairs(p_st) = [k \in 1..Len(nfs) |-> BlockRecord(p_text, nfs[k])]

\* the fixed enumeration of the 22 operation types
OperationTypes == {OperationNames[i] : i \in 1..Len(OperationNames)}

\* the stat line the parser was last tried on names no known operation type
LastLineForeign ==
    /\ Consumed > 0
    /\ p_text[Consumed].tok = "stat"
    /\ p_text[Consumed].optype \notin OperationTypes

\* C14: in every state of parsing the operation-type keys of every mount
\* record are among the 22 operation types; a stat line with another
\* upper-case name is rejected (the parse raises) and is never stored.
C14_KeysInEnumeration ==
    /\ \A i \in 1..Len(p_st.objs) : DOMAIN p_st.objs[i].attrs \subseteq OperationTypes
    /\ (p_pc # "idle" /\ LastLineForeign) => p_pc = "raised"

\* a stat line with a foreign name was met while a record was being filled
C14_Witness ==
    /\ p_pc = "raised"
    /\ LastLineForeign
    /\ p_st.current_device # 0
    /\ DOMAIN p_st.objs[p_st.current_device].attrs # {}

\* the nfs mounts of a text with the operation types observed for each
Shape(text) ==
    {<<text[i].device, text[i].mount, DOMAIN BlockRecord(text, i).attrs>> :
        i \in {j \in HeaderPositions(text) : text[j].type = "nfs"}}

\* the (device, operation type) pairs whose major_timeouts in the text new
\* exceeds the value in the text old, for the nfs mounts of both texts
Increases(old, new) ==
    LET nfs(text) == {j \in HeaderPositions(text) : text[j].type = "nfs"}
    IN  {<<new[i].device, a>> : <<i, a>> \in
            {<<i, a>> \in nfs(new) \X OpsOfModel :
                \E j \in nfs(old) :
                    /\ old[j].device = new[i].device
                    /\ old[j].mount = new[i].mount
                    /\ a \in DOMAIN BlockRecord(new, i).attrs
                    /\ a \in DOMAIN BlockRecord(old, j).attrs
                    /\ mt(BlockRecord(new, i), a) > mt(BlockRecord(old, j), a)}}

\* the (device, operation type) pairs the CRITICAL lines of an output name
Reported(out) ==
    UNION {{<<out[i][4], out[i][5][k].op>> : k \in 1..Len(out[i][5])} :
              i \in {j \in 1..Len(out) : out[j][1] = "CRITICAL"}}

\* C16: over sequential runs in which the nfs mounts and their observed
\* operation types stay the same, a failed fetch leaves the baseline in
\* place, a run whose fetch succeeded compares against the history as loaded,
\* reports CRITICAL for exactly the operation types whose major_timeouts in
\* its text exceeds the baseline's, and leaves its own text as the baseline,
\* so that an increase is not reported again unless the counter rises again.
C16_ReportsIncreaseOverBaseline ==
    [][/\ (pc = "fetch" /\ pc' # "load") => history' = history
       /\ (pc = "load" /\ pc' = "parse") => r_old_stats' = history.data
       /\ (EndsComparedRun /\ Shape(r_old_stats) = Shape(r_new_stats)) =>
             /\ Reported(stdout') = Increases(r_old_stats, r_new_stats)
             /\ history' = persist_mountstats(r_new_stats)]_vars

\* the complete texts fetched by the two runs
FetchedTexts == {race_run[p].r_new_stats : p \in {q \in Runs : race_run[q].pc # "fetch"}}

\* run p's load returned a text that is neither the history before both runs
\* nor the complete text fetched by either run
TornRead(p) ==
    /\ race_run[p].loaded
    /\ race_run[p].r_old_stats # race_before.data
    /\ race_run[p].r_old_stats \notin FetchedTexts

\* C15: runs against the same target take no lock on the history file: while
\* one run has the file open for writing (between its open and its close)
\* the other run's load and its own truncating open go ahead all the same.
\* That they race to a torn read and a torn history is the reachable state
\* C15_Witness.
C15_NoLockOnHistory ==
    \A p \in DOMAIN race_run : \A q \in (DOMAIN race_run) \ {p} :
        race_run[p].pc \in {"write", "close"} =>
            /\ race_run[q].pc = "load" => ENABLED RaceLoad(q)
            /\ race_run[q].pc = "open" => ENABLED RaceOpen(q)

\* both runs fetched and wrote; one of them loaded the file the other had
\* truncated, and the history they leave is the text of neither
C15_Witness ==
    /\ race_run # <<>>
    /\ race_before.exists
    /\ \A p \in Runs : race_run[p].pc = "exit" /\ race_run[p].persisted
    /\ \E p \in Runs : TornRead(p) /\ race_run[p].r_old_stats = <<>>
    /\ race_history.data \notin FetchedTexts

====
